---- MODULE Spec2Model ----
(***************************************************************************)
(* A model of render_templates.py: the layered YAML configuration is       *)
(* deep-merged on a heap of dict objects (Python dicts are references, so  *)
(* `dict1[key] = value` aliases the overlay's nested dicts), macro modules *)
(* are injected into the merged dict, and every template under the         *)
(* template root is rendered into a freshly recreated output directory.    *)
(***************************************************************************)
EXTENDS Integers, Sequences, FiniteSets, TLC

(***************************************************************************)
(* Bounds of the model.                                                    *)
(***************************************************************************)
\* the most configuration files (both layers together) of one run
MaxFiles == 3
\* the most files in the template tree of one run
MaxUnits == 3
\* the most macro files in the macros directory of one run
MaxMacroFiles == 3

(***************************************************************************)
(* YAML values.  A heap cell is [t, s]: a scalar ("s"), a sequence ("l"),  *)
(* a reference to a dict object of the heap ("r") or, once macros are      *)
(* injected, a macro object ("f").  A document tree is the same by value:  *)
(* a function from the keys present to leaf cells or to [t |-> "m",        *)
(* m |-> subtree].                                                         *)
(***************************************************************************)
TopKeys == {"a"}
SubKeys == {"x", "y"}
\* the order in which the keys of a dict are visited
KeyOrder == <<"a", "x", "y", "mk">>

Scalar(n) == [t |-> "s", s |-> n]
YamlList(n) == [t |-> "l", s |-> n]
Ref(id) == [t |-> "r", s |-> id]
MacroObj(n) == [t |-> "f", s |-> n]
MapVal(tr) == [t |-> "m", m |-> tr]

IsDict(cell) == cell.t = "r"
IsMap(cell) == cell.t = "m"

ScalarLeaves == {Scalar(1), Scalar(2)}
TopLeaves == ScalarLeaves \cup {YamlList(1)}

TreesOver(K, Cells) == UNION {[D -> Cells] : D \in SUBSET K}
SubTrees == TreesOver(SubKeys, ScalarLeaves)
Trees == TreesOver(TopKeys, TopLeaves \cup {MapVal(u) : u \in SubTrees})
\* the same, one level deeper
LeafTrees == TreesOver({"x"}, ScalarLeaves)
DeepSubTrees == TreesOver(SubKeys, ScalarLeaves \cup {MapVal(u) : u \in LeafTrees})
DeepTrees == TreesOver(TopKeys, TopLeaves \cup {MapVal(u) : u \in DeepSubTrees})
EmptyTree == CHOOSE tr \in Trees : DOMAIN tr = {}

(***************************************************************************)
(* The heap: a sequence of dict objects, each a function from its keys to  *)
(* heap cells; an object's id is its index.                                *)
(***************************************************************************)
Put(d, k, v) == [x \in (DOMAIN d) \cup {k} |-> IF x = k THEN v ELSE d[x]]

KeysIn(d) == SelectSeq(KeyOrder, LAMBDA k : k \in DOMAIN d)

\* yaml.safe_load builds fresh dict objects: the tree is allocated at the
\* end of the heap, its root last.
RECURSIVE Alloc(_, _), AllocKeys(_, _, _, _)
AllocKeys(h, tr, ks, d) ==
    IF ks = <<>> THEN [heap |-> Append(h, d), root |-> Len(h) + 1]
    ELSE LET k == Head(ks) IN
         IF IsMap(tr[k])
         THEN LET sub == Alloc(h, tr[k].m)
              IN AllocKeys(sub.heap, tr, Tail(ks), Put(d, k, Ref(sub.root)))
         ELSE AllocKeys(h, tr, Tail(ks), Put(d, k, tr[k]))
Alloc(h, tr) == AllocKeys(h, tr, KeysIn(tr), EmptyTree)

\* the value of a dict object, read through its references
RECURSIVE Deref(_, _)
Deref(h, id) ==
    [k \in DOMAIN h[id] |->
        IF IsDict(h[id][k]) THEN MapVal(Deref(h, h[id][k].s)) ELSE h[id][k]]

(***************************************************************************)
(* Faulty variants of deep_merge, for checking that the properties below   *)
(* tell them from the code: one that never recurses (dict1.update(dict2)), *)
(* one that keeps the value dict1 already has (dict1.setdefault).          *)
(***************************************************************************)
RECURSIVE MergeItemsShallow(_, _, _, _)
MergeItemsShallow(h, dict1, dict2, ks) ==
    IF ks = <<>> THEN h
    ELSE MergeItemsShallow([h EXCEPT ![dict1] = Put(@, Head(ks), h[dict2][Head(ks)])],
                           dict1, dict2, Tail(ks))

RECURSIVE DeepMergeFirstWins(_, _, _), MergeItemsFirstWins(_, _, _, _)
MergeItemsFirstWins(h, dict1, dict2, ks) ==
    IF ks = <<>> THEN h
    ELSE LET key == Head(ks)
             value == h[dict2][key]
         IN IF key \in DOMAIN h[dict1] /\ IsDict(h[dict1][key]) /\ IsDict(value)
            THEN MergeItemsFirstWins(DeepMergeFirstWins(h, h[dict1][key].s, value.s),
                                     dict1, dict2, Tail(ks))
            ELSE IF key \in DOMAIN h[dict1]
            THEN MergeItemsFirstWins(h, dict1, dict2, Tail(ks))
            ELSE MergeItemsFirstWins([h EXCEPT ![dict1] = Put(@, key, value)],
                                     dict1, dict2, Tail(ks))
DeepMergeFirstWins(h, dict1, dict2) ==
    MergeItemsFirstWins(h, dict1, dict2, KeysIn(h[dict2]))

(***************************************************************************)
(* deep_merge(dict1, dict2)                                                *)
(***************************************************************************)
RECURSIVE DeepMerge(_, _, _), MergeItems(_, _, _, _)
MergeItems(h, dict1, dict2, ks) ==
    IF ks = <<>> THEN h
    ELSE LET key == Head(ks)
             value == h[dict2][key]
         IN IF key \in DOMAIN h[dict1] /\ IsDict(h[dict1][key]) /\ IsDict(value)
            THEN MergeItems(DeepMerge(h, h[dict1][key].s, value.s),
                            dict1, dict2, Tail(ks))
            ELSE MergeItems([h EXCEPT ![dict1] = Put(@, key, value)],
                            dict1, dict2, Tail(ks))
DeepMerge(h, dict1, dict2) == MergeItems(h, dict1, dict2, KeysIn(h[dict2]))

(***************************************************************************)
(* Files.  A YAML file is a document: a mapping ("map", with its tree), an *)
(* empty or falsy document ("null"), a truthy document that is no mapping  *)
(* ("seq"), or a file that cannot be opened or parsed ("invalid").  A file *)
(* of the template tree is a location under the template root and a body:  *)
(* what the engine does with it (k), the one name it refers to at its top  *)
(* level (ref, "" for none) and the names its module exports (exp).        *)
(***************************************************************************)
Doc(k, v) == [k |-> k, v |-> v]
Loc(dirs, stem, ext) == [dirs |-> dirs, stem |-> stem, ext |-> ext]
Body(k, ref, exp) == [k |-> k, ref |-> ref, exp |-> exp]

\* --target_files, at its default, and the loader root of the Environment
TargetParts == <<"terraform">>
\* the values --macros_dir takes here; the first is its default
MacrosDirs == {<<"terraform", "macros">>, <<"terraform", "helpers">>}
\* file names in lexicographic order (the order sorted() puts them in)
NameOrder == <<"h", "m", "n", "p", "q", "readme", "v", "x", "y", "z">>
Rank(stem) == CHOOSE n \in 1..Len(NameOrder) : NameOrder[n] = stem
\* what dir() of a template module always holds besides its exports
ModuleInternals == {"_body_stream"}
UnderscoreNames == {"_body_stream"}

VARIABLES
    \* the file system and the command line, as the run finds them
    fsEnvIsDir,      \* os.path.isdir("environments/<environment>")
    fsCoreYaml,      \* the documents of environments/*.yml, in sorted order
    fsEnvYaml,       \* the documents of environments/<environment>/*.yml
    fsYamlWritable,  \* whether --output_yaml can be opened for writing
    fsTargetIsDir,   \* whether the template root is a directory
    fsTemplates,     \* the files under the template root: location -> body
    fsMacrosIsDir,   \* os.path.isdir(args.macros_dir)
    macros_dir,      \* args.macros_dir, as path parts
    outBefore,       \* the files of the output directory before the run
    \* the output directory
    outExists, outFiles, outDirs,
    \* the program
    pc, heap, merged, i, core_values, env_values, macroQueue, pending,
    yamlOut,
    \* history: what was passed to deep_merge, what the loops did
    overlays, lastCall, macroLog, attempted, rendered, wiped, err

inputs == <<fsEnvIsDir, fsCoreYaml, fsEnvYaml, fsYamlWritable, fsTargetIsDir,
            fsTemplates, fsMacrosIsDir, macros_dir, outBefore>>
outdir == <<outExists, outFiles, outDirs>>
config == <<heap, merged, i, core_values, env_values, overlays, lastCall>>
renderst == <<pending, attempted, rendered, wiped>>
vars == <<inputs, outdir, config, renderst, pc, macroQueue, yamlOut, macroLog, err>>

Terminal == {"done", "exit1", "crash"}

(***************************************************************************)
(* main, lines 118-133: the set-up checks                                  *)
(***************************************************************************)
CheckEnvDir ==
    /\ pc = "check_env"
    /\ pc' = IF fsEnvIsDir THEN "glob_core" ELSE "exit1"
    /\ err' = IF fsEnvIsDir THEN err ELSE "no_env_dir"
    /\ UNCHANGED <<inputs, outdir, config, renderst, macroQueue, yamlOut, macroLog>>

GlobCore ==
    /\ pc = "glob_core"
    /\ pc' = IF fsCoreYaml # <<>> THEN "glob_env" ELSE "exit1"
    /\ err' = IF fsCoreYaml # <<>> THEN err ELSE "no_core_yaml"
    /\ UNCHANGED <<inputs, outdir, config, renderst, macroQueue, yamlOut, macroLog>>

GlobEnv ==
    /\ pc = "glob_env"
    /\ pc' = IF fsEnvYaml # <<>> THEN "load_core" ELSE "exit1"
    /\ err' = IF fsEnvYaml # <<>> THEN err ELSE "no_env_yaml"
    /\ UNCHANGED <<inputs, outdir, config, renderst, macroQueue, yamlOut, macroLog>>

(***************************************************************************)
(* load_yaml_files: one step per file.  The first step also creates the    *)
(* accumulator (merged = {}), the last one returns it.                     *)
(***************************************************************************)
\* yaml.safe_load(f) or {}
SafeLoadOrEmpty(doc) == IF doc.k = "map" THEN doc.v ELSE EmptyTree

LoadYamlFile(docs, isCore) ==
    LET doc == docs[i]
        acc == IF i = 1 THEN Alloc(heap, EmptyTree)
                        ELSE [heap |-> heap, root |-> merged]
        data == Alloc(acc.heap, SafeLoadOrEmpty(doc))
        h1 == DeepMerge(data.heap, acc.root, data.root)
        last == i = Len(docs)
    IN IF doc.k \in {"invalid", "seq"}
       THEN \* open or yaml.safe_load raises; a list has no .items()
            /\ pc' = "crash"
            /\ err' = IF doc.k = "invalid" THEN "yaml_error" ELSE "not_a_mapping"
            /\ UNCHANGED config
       ELSE /\ heap' = h1
            /\ merged' = acc.root
            /\ overlays' = Append(overlays,
                   [root |-> data.root, val |-> Deref(data.heap, data.root)])
            /\ lastCall' = [base0 |-> Deref(data.heap, acc.root),
                            over0 |-> Deref(data.heap, data.root),
                            res |-> Deref(h1, acc.root), n |-> lastCall.n + 1]
            /\ i' = IF last THEN 1 ELSE i + 1
            /\ core_values' = IF last /\ isCore THEN acc.root ELSE core_values
            /\ env_values' = IF last /\ ~isCore THEN acc.root ELSE env_values
            /\ pc' = IF ~last THEN pc ELSE IF isCore THEN "load_env" ELSE "merge"
            /\ err' = err

LoadCoreFile ==
    /\ pc = "load_core"
    /\ LoadYamlFile(fsCoreYaml, TRUE)
    /\ UNCHANGED <<inputs, outdir, renderst, macroQueue, yamlOut, macroLog>>

LoadEnvFile ==
    /\ pc = "load_env"
    /\ LoadYamlFile(fsEnvYaml, FALSE)
    /\ UNCHANGED <<inputs, outdir, renderst, macroQueue, yamlOut, macroLog>>

(***************************************************************************)
(* main, lines 141-146: merge the layers, dump the result                  *)
(***************************************************************************)
\* a faulty variant: the layers merged the wrong way round,
\* deep_merge(env_values, core_values)
MergeLayersSwapped ==
    /\ pc = "merge"
    /\ LET h1 == DeepMerge(heap, env_values, core_values)
       IN /\ heap' = h1
          /\ overlays' = Append(overlays,
                 [root |-> core_values, val |-> Deref(heap, core_values)])
          /\ lastCall' = [base0 |-> Deref(heap, env_values),
                          over0 |-> Deref(heap, core_values),
                          res |-> Deref(h1, env_values), n |-> lastCall.n + 1]
    /\ pc' = "dump"
    /\ UNCHANGED <<inputs, outdir, renderst, merged, i, core_values, env_values,
                   macroQueue, yamlOut, macroLog, err>>

MergeLayers ==
    /\ pc = "merge"
    /\ LET h1 == DeepMerge(heap, core_values, env_values)
       IN /\ heap' = h1
          /\ overlays' = Append(overlays,
                 [root |-> env_values, val |-> Deref(heap, env_values)])
          /\ lastCall' = [base0 |-> Deref(heap, core_values),
                          over0 |-> Deref(heap, env_values),
                          res |-> Deref(h1, core_values), n |-> lastCall.n + 1]
    /\ pc' = "dump"
    /\ UNCHANGED <<inputs, outdir, renderst, merged, i, core_values, env_values,
                   macroQueue, yamlOut, macroLog, err>>

DumpYaml ==
    /\ pc = "dump"
    /\ IF fsYamlWritable
       THEN /\ yamlOut' = Deref(heap, core_values)
            /\ pc' = "inject"
            /\ err' = err
       ELSE /\ pc' = "crash"
            /\ err' = "yaml_dump"
            /\ yamlOut' = yamlOut
    /\ UNCHANGED <<inputs, outdir, config, renderst, macroQueue, macroLog>>

(***************************************************************************)
(* inject_macros                                                           *)
(***************************************************************************)
\* Path(macros_dir).glob("*.j2")
MacroGlob ==
    {loc \in DOMAIN fsTemplates :
        loc.ext = "j2" /\ TargetParts \o loc.dirs = macros_dir}

\* a faulty variant: sorted(..., reverse=True)
RECURSIVE SortedByNameDescending(_)
SortedByNameDescending(S) ==
    IF S = {} THEN <<>>
    ELSE LET first == CHOOSE f \in S : \A g \in S : Rank(f.stem) >= Rank(g.stem)
         IN <<first>> \o SortedByNameDescending(S \ {first})

\* sorted(...): ascending by file name
RECURSIVE SortedByName(_)
SortedByName(S) ==
    IF S = {} THEN <<>>
    ELSE LET first == CHOOSE f \in S : \A g \in S : Rank(f.stem) <= Rank(g.stem)
         IN <<first>> \o SortedByName(S \ {first})

\* env.get_template(...).module: the module is evaluated with no
\* configuration in scope, so a top-level reference is undefined
ModuleLoads(body) == body.k = "ok" /\ body.ref = ""

\* for name in dir(macro_module): if not name.startswith("_"): context[name] = ...
InjectModule(ctx, body, obj) ==
    LET names == {n \in body.exp \cup ModuleInternals : n \notin UnderscoreNames}
    IN [x \in (DOMAIN ctx) \cup names |-> IF x \in names THEN obj ELSE ctx[x]]

InjectMacrosEnter ==
    /\ pc = "inject"
    /\ LET queue == IF fsMacrosIsDir THEN SortedByName(MacroGlob) ELSE <<>>
       IN /\ macroQueue' = queue
          /\ pc' = IF queue = <<>> THEN "wipe" ELSE "inject_loop"
    /\ UNCHANGED <<inputs, outdir, config, renderst, yamlOut, macroLog, err>>

InjectMacroFile ==
    /\ pc = "inject_loop"
    /\ LET macro_file == Head(macroQueue)
           body == fsTemplates[macro_file]
       IN /\ heap' = IF ModuleLoads(body)
                     THEN [heap EXCEPT ![core_values] =
                             InjectModule(@, body, MacroObj(Rank(macro_file.stem)))]
                     ELSE heap
          /\ macroLog' = Append(macroLog, macro_file)
    /\ macroQueue' = Tail(macroQueue)
    /\ pc' = IF Tail(macroQueue) = <<>> THEN "wipe" ELSE "inject_loop"
    /\ UNCHANGED <<inputs, outdir, renderst, merged, i, core_values, env_values,
                   overlays, lastCall, yamlOut, err>>

(***************************************************************************)
(* render_templates                                                        *)
(***************************************************************************)
NoFiles == [p \in {} |-> Scalar(0)]

\* Path(input_dir).rglob("*.j2")
Discovered ==
    IF fsTargetIsDir THEN {loc \in DOMAIN fsTemplates : loc.ext = "j2"} ELSE {}

\* "macros" in path.parts, path being input_dir joined with the relative path
InMacrosParts(loc) ==
    LET parts == TargetParts \o loc.dirs
    IN \E n \in 1..Len(parts) : parts[n] = "macros"

\* rel_path.with_suffix(""), under the output directory
OutPath(loc) == Append(loc.dirs, loc.stem)

Prefixes(dirs) == {SubSeq(dirs, 1, n) : n \in 0..Len(dirs)}

\* os.makedirs(parent, exist_ok=True) raises when a file is in the way;
\* the directories above the file have been created by then
MakedirsRaises(files, parent) == \E p \in Prefixes(parent) : p \in DOMAIN files
MakedirsCreates(files, parent) ==
    {p \in Prefixes(parent) : \A q \in Prefixes(p) : q \notin DOMAIN files}

\* env.get_template(...) and template.render(context)
RenderOutcome(body, ctx) ==
    IF body.k = "notfound" THEN "TemplateNotFound"
    ELSE IF body.k = "syntax" THEN "TemplateSyntaxError"
    ELSE IF body.ref # "" /\ body.ref \notin DOMAIN ctx THEN "UndefinedError"
    ELSE IF body.k = "error" THEN "Exception"
    ELSE "rendered"

RenderedText(body, ctx) == IF body.ref = "" THEN Scalar(0) ELSE ctx[body.ref]

\* a faulty variant: os.makedirs(output_dir, exist_ok=True) with no rmtree
KeepOutputDir ==
    /\ pc = "wipe"
    /\ outExists' = TRUE
    /\ outFiles' = outFiles
    /\ outDirs' = outDirs \cup {<<>>}
    /\ wiped' = TRUE
    /\ pending' = Discovered
    /\ pc' = IF Discovered = {} THEN "done" ELSE "render"
    /\ UNCHANGED <<inputs, config, attempted, rendered, macroQueue, yamlOut,
                   macroLog, err>>

RecreateOutputDir ==
    /\ pc = "wipe"
    /\ outExists' = TRUE
    /\ outFiles' = NoFiles
    /\ outDirs' = {<<>>}
    /\ wiped' = TRUE
    /\ pending' = Discovered
    /\ pc' = IF Discovered = {} THEN "done" ELSE "render"
    /\ UNCHANGED <<inputs, config, attempted, rendered, macroQueue, yamlOut,
                   macroLog, err>>

RenderUnit ==
    /\ pc = "render"
    /\ \E path \in pending :
          LET body == fsTemplates[path]
              output_path == OutPath(path)
              outcome == RenderOutcome(body, heap[core_values])
              rest == pending \ {path}
              goOn == IF rest = {} THEN "done" ELSE "render"
          IN /\ pending' = rest
             /\ IF InMacrosParts(path)
                THEN /\ pc' = goOn
                     /\ UNCHANGED <<outFiles, outDirs, attempted, rendered, err>>
                ELSE IF MakedirsRaises(outFiles, path.dirs)
                THEN /\ pc' = "crash"
                     /\ err' = "makedirs"
                     /\ outDirs' = outDirs \cup MakedirsCreates(outFiles, path.dirs)
                     /\ UNCHANGED <<outFiles, attempted, rendered>>
                ELSE /\ outDirs' = outDirs \cup Prefixes(path.dirs)
                     /\ attempted' = attempted \cup {path}
                     /\ IF outcome # "rendered"
                        THEN /\ pc' = goOn
                             /\ UNCHANGED <<outFiles, rendered, err>>
                        ELSE IF output_path \in outDirs'
                        THEN \* open(output_path, "w") on a directory
                             /\ pc' = "crash"
                             /\ err' = "open"
                             /\ UNCHANGED <<outFiles, rendered>>
                        ELSE /\ outFiles' = Put(outFiles, output_path,
                                                RenderedText(body, heap[core_values]))
                             /\ rendered' = rendered \cup {path}
                             /\ pc' = goOn
                             /\ err' = err
    /\ UNCHANGED <<inputs, outExists, config, wiped, macroQueue, yamlOut, macroLog>>

(***************************************************************************)
(* The runs checked.  Every run starts main at its first check, with a     *)
(* file system drawn from one of five families: two vary the             *)
(* configuration files, one the set-up faults, one the macro files, one    *)
(* the template tree and the old output directory.                         *)
(***************************************************************************)
MapDocs == {Doc("map", tr) : tr \in Trees}
ADoc == Doc("map", [k \in {"a"} |-> Scalar(1)])
SetupDocs == {ADoc, Doc("null", EmptyTree), Doc("seq", EmptyTree),
              Doc("invalid", EmptyTree)}

PlainBody == Body("ok", "", {})
RootTemplate == Loc(<<>>, "x", "j2")
\* locations whose bodies vary, and locations that hold a plain file
UnitLocs == {RootTemplate, Loc(<<"x">>, "y", "j2"), Loc(<<>>, "z", "j2")}
OtherLocs == {Loc(<<"macros">>, "m", "j2"), Loc(<<"net", "macros">>, "v", "j2"),
              Loc(<<"helpers">>, "h", "j2"), Loc(<<>>, "readme", "md")}
RenderBodies == {PlainBody, Body("ok", "a", {}), Body("ok", "zz", {}),
                 Body("syntax", "", {}), Body("error", "", {}),
                 Body("notfound", "", {})}
MacroLocs == {Loc(<<"macros">>, n, "j2") : n \in {"m", "n", "p", "q"}}
MacroBodies == {Body("ok", "", {"a"}), Body("ok", "", {"mk"}),
                Body("ok", "", {"a", "mk"}), Body("syntax", "", {}),
                Body("ok", "a", {"mk"})}

FileTrees(Locs, Bodies, n) ==
    UNION {[L -> Bodies] : L \in {S \in SUBSET Locs : Cardinality(S) <= n}}
RenderTrees ==
    {tree \in FileTrees(UnitLocs \cup OtherLocs, RenderBodies, MaxUnits) :
        \A loc \in DOMAIN tree : loc \in OtherLocs => tree[loc] = PlainBody}

OneTemplate == [l \in {RootTemplate} |-> PlainBody]
OldOutputs == {NoFiles, [p \in {<<"x">>, <<"gone", "w">>} |-> Scalar(9)]}

\* a directory holding files exists
MacrosDirHasFiles(tree, md) ==
    \E loc \in DOMAIN tree : TargetParts \o loc.dirs = md

Start(core, env, tree, md, old) ==
    /\ fsCoreYaml = core
    /\ fsEnvYaml = env
    /\ fsTemplates = tree
    /\ macros_dir = md
    /\ outBefore = old
    /\ outFiles = old
    /\ outExists = (old # NoFiles)
    /\ outDirs = UNION {Prefixes(SubSeq(p, 1, Len(p) - 1)) : p \in DOMAIN old}
    /\ pc = "check_env"
    /\ heap = <<>>
    /\ merged = 0
    /\ i = 1
    /\ core_values = 0
    /\ env_values = 0
    /\ macroQueue = <<>>
    /\ pending = {}
    /\ yamlOut = EmptyTree
    /\ overlays = <<>>
    /\ lastCall = [base0 |-> EmptyTree, over0 |-> EmptyTree, res |-> EmptyTree, n |-> 0]
    /\ macroLog = <<>>
    /\ attempted = {}
    /\ rendered = {}
    /\ wiped = FALSE
    /\ err = ""

InitConfig ==
    /\ \E nc \in 1..MaxFiles, ne \in 1..MaxFiles :
          /\ nc + ne <= MaxFiles
          /\ \E core \in [1..nc -> MapDocs], env \in [1..ne -> MapDocs] :
                Start(core, env, OneTemplate, <<"terraform", "macros">>, NoFiles)
    /\ fsEnvIsDir = TRUE
    /\ fsYamlWritable = TRUE
    /\ fsTargetIsDir = TRUE
    /\ fsMacrosIsDir = FALSE

\* one file a layer, from the deeper trees
InitPairs ==
    /\ \E b \in DeepTrees, o \in DeepTrees :
          Start(<<Doc("map", b)>>, <<Doc("map", o)>>, OneTemplate,
                <<"terraform", "macros">>, NoFiles)
    /\ fsEnvIsDir = TRUE
    /\ fsYamlWritable = TRUE
    /\ fsTargetIsDir = TRUE
    /\ fsMacrosIsDir = FALSE

InitSetup ==
    /\ fsEnvIsDir \in BOOLEAN
    /\ fsYamlWritable \in BOOLEAN
    /\ fsTargetIsDir \in BOOLEAN
    /\ fsMacrosIsDir = FALSE
    /\ \E nc \in 0..1, ne \in 0..1 :
          \E core \in [1..nc -> SetupDocs], env \in [1..ne -> SetupDocs],
             old \in OldOutputs :
                Start(core, env, IF fsTargetIsDir THEN OneTemplate ELSE NoFiles,
                      <<"terraform", "macros">>, old)

InitMacros ==
    /\ \E core \in [1..1 -> {ADoc, Doc("map", EmptyTree)}],
          macros \in FileTrees(MacroLocs, MacroBodies, MaxMacroFiles),
          caller \in {PlainBody, Body("ok", "mk", {}), Body("ok", "a", {})} :
          /\ Start(core, <<Doc("null", EmptyTree)>>,
                   [l \in (DOMAIN macros) \cup {RootTemplate} |->
                       IF l = RootTemplate THEN caller ELSE macros[l]],
                   <<"terraform", "macros">>, NoFiles)
          /\ fsMacrosIsDir \in {b \in BOOLEAN : DOMAIN macros # {} => b}
    /\ fsEnvIsDir = TRUE
    /\ fsYamlWritable = TRUE
    /\ fsTargetIsDir = TRUE

InitRender ==
    /\ \E tree \in RenderTrees,
          md \in MacrosDirs, old \in OldOutputs :
          /\ Start(<<ADoc>>, <<Doc("null", EmptyTree)>>, tree, md, old)
          /\ fsMacrosIsDir = MacrosDirHasFiles(tree, md)
    /\ fsEnvIsDir = TRUE
    /\ fsYamlWritable = TRUE
    /\ fsTargetIsDir = TRUE

Init == InitConfig \/ InitPairs \/ InitSetup \/ InitMacros \/ InitRender

Next ==
    \/ CheckEnvDir
    \/ GlobCore
    \/ GlobEnv
    \/ LoadCoreFile
    \/ LoadEnvFile
    \/ MergeLayers
    \/ DumpYaml
    \/ InjectMacrosEnter
    \/ InjectMacroFile
    \/ RecreateOutputDir
    \/ RenderUnit

Spec == Init /\ [][Next]_vars

(***************************************************************************)
(* What the claims speak of                                                *)
(***************************************************************************)
\* the reference merge: mappings on both sides merge key by key, any other
\* conflict takes the overlay's value, a key of one side only is kept
RECURSIVE RefMerge(_, _)
RefMerge(b, o) ==
    [k \in (DOMAIN b) \cup (DOMAIN o) |->
        IF k \in DOMAIN b /\ k \in DOMAIN o
        THEN IF IsMap(b[k]) /\ IsMap(o[k])
             THEN MapVal(RefMerge(b[k].m, o[k].m))
             ELSE o[k]
        ELSE IF k \in DOMAIN o THEN o[k] ELSE b[k]]

\* the left fold of the reference merge over a list of trees
RECURSIVE FoldMerge(_, _)
FoldMerge(acc, trees) ==
    IF trees = <<>> THEN acc
    ELSE FoldMerge(RefMerge(acc, Head(trees)), Tail(trees))

DocTrees(docs) == [n \in 1..Len(docs) |-> SafeLoadOrEmpty(docs[n])]
BaseTrees == DocTrees(fsCoreYaml)
OverrideTrees == DocTrees(fsEnvYaml)
\* the files in load order: the base layer's, then the override layer's
AllTrees == BaseTrees \o OverrideTrees

\* the key paths of a tree
RECURSIVE PathsIn(_)
PathsIn(tr) ==
    UNION {{<<k>>} \cup (IF IsMap(tr[k])
                         THEN {<<k>> \o p : p \in PathsIn(tr[k].m)}
                         ELSE {}) : k \in DOMAIN tr}
RECURSIVE Defines(_, _)
Defines(tr, p) ==
    /\ p[1] \in DOMAIN tr
    /\ Len(p) > 1 => IsMap(tr[p[1]]) /\ Defines(tr[p[1]].m, Tail(p))
RECURSIVE ValueAt(_, _)
ValueAt(tr, p) == IF Len(p) = 1 THEN tr[p[1]] ELSE ValueAt(tr[p[1]].m, Tail(p))

AllPaths == UNION {PathsIn(AllTrees[n]) : n \in 1..Len(AllTrees)}
Definers(p) == {n \in 1..Len(AllTrees) : Defines(AllTrees[n], p)}
LastDefiner(p) == CHOOSE n \in Definers(p) : \A m \in Definers(p) : m <= n
LeafEverywhere(p) == \A n \in Definers(p) : ~IsMap(ValueAt(AllTrees[n], p))
MapEverywhere(p) == \A n \in Definers(p) : IsMap(ValueAt(AllTrees[n], p))
ProperPrefixes(p) == {SubSeq(p, 1, n) : n \in 1..(Len(p) - 1)}

\* the resolved configuration, right after main has merged the layers
Resolved == Deref(heap, core_values)

\* C1: after every call of deep_merge, base holds the reference merge of
\* what base and overlay held when the call began.
C1_DeepMergeIsReferenceMerge ==
    lastCall.n > 0 => lastCall.res = RefMerge(lastCall.base0, lastCall.over0)

\* a call that merged two nested mappings with different keys
C1_Witness ==
    /\ lastCall.n > 0
    /\ lastCall.base0 = [k \in {"a"} |-> MapVal([j \in {"x"} |-> Scalar(1)])]
    /\ lastCall.over0 = [k \in {"a"} |-> MapVal([j \in {"y"} |-> Scalar(2)])]
    /\ lastCall.res = [k \in {"a"} |->
                          MapVal([j \in {"x", "y"} |->
                                     IF j = "x" THEN Scalar(1) ELSE Scalar(2)])]

\* C2, as claimed: a key path that is no mapping in any file defining it
\* resolves to the value of the last file, in load order, that defines it.
C2_LastFileWins ==
    pc = "dump" =>
        \A p \in AllPaths :
            LeafEverywhere(p) =>
                /\ Defines(Resolved, p)
                /\ ValueAt(Resolved, p) = ValueAt(AllTrees[LastDefiner(p)], p)

\* C2, amended: the same for the key paths whose proper prefixes are
\* mappings in every file that defines them.
C2_LastFileWinsUnderMappings ==
    pc = "dump" =>
        \A p \in AllPaths :
            (LeafEverywhere(p) /\ \A q \in ProperPrefixes(p) : MapEverywhere(q)) =>
                /\ Defines(Resolved, p)
                /\ ValueAt(Resolved, p) = ValueAt(AllTrees[LastDefiner(p)], p)

\* a nested key set to 1 by the second base file and to 2 by the first,
\* and by no override file: the later base file has won
C2_Witness ==
    /\ pc = "dump"
    /\ Len(fsCoreYaml) = 2
    /\ LET p == <<"a", "x">>
       IN /\ Definers(p) = {1, 2}
          /\ MapEverywhere(<<"a">>)
          /\ ValueAt(AllTrees[1], p) = Scalar(2)
          /\ ValueAt(AllTrees[2], p) = Scalar(1)
          /\ ValueAt(Resolved, p) = Scalar(1)

\* C9, as claimed: every tree passed to deep_merge as the overlay keeps the
\* value it had at its call, through every later merge.
C9_OverlayNeverMutated ==
    \A n \in 1..Len(overlays) : Deref(heap, overlays[n].root) = overlays[n].val

\* no key is a mapping in one file and something else in another
ConsistentKinds ==
    \A p \in AllPaths : LeafEverywhere(p) \/ MapEverywhere(p)

\* C10, as claimed: the resolved configuration is the one left fold over
\* the base files followed by the override files.
C10_OneLeftFold ==
    pc = "dump" => Resolved = FoldMerge(EmptyTree, AllTrees)

\* C10, amended: it is the merge of the override layer's fold into the
\* base layer's fold, which is the one left fold when no key is a mapping
\* in one file and something else in another.
C10_LayeredFold ==
    pc = "dump" =>
        /\ Resolved = RefMerge(FoldMerge(EmptyTree, BaseTrees),
                               FoldMerge(EmptyTree, OverrideTrees))
        /\ ConsistentKinds => Resolved = FoldMerge(EmptyTree, AllTrees)

\* one base file and two override files that all set a.x, with no key
\* changing kind
C10_Witness ==
    /\ pc = "dump"
    /\ Len(fsCoreYaml) = 1
    /\ Len(fsEnvYaml) = 2
    /\ ConsistentKinds
    /\ Definers(<<"a", "x">>) = {1, 2, 3}
    /\ ValueAt(AllTrees[2], <<"a", "x">>) # ValueAt(AllTrees[3], <<"a", "x">>)
    /\ Definers(<<"a", "y">>) = {1}

\* the template units: what the discovery yields and the code's own macro
\* test lets through
Units == {loc \in Discovered : ~InMacrosParts(loc)}

\* render_templates has begun
Rendering == wiped

\* C3, as claimed: no failure in one unit, an I/O error on its output
\* directory or file included, keeps another unit from being attempted,
\* and the run completes.
C3_RenderIsolation ==
    (Rendering /\ pc \in Terminal) =>
        /\ pc = "done"
        /\ \A loc \in Units : loc \in attempted

\* C4: when render_templates has completed, the output directory holds
\* exactly the outputs of the units rendered in this run, each with the
\* text rendered in this run.
C4_ExactOutput ==
    pc = "done" =>
        /\ DOMAIN outFiles = {OutPath(loc) : loc \in rendered}
        /\ \A loc \in Discovered \ rendered : OutPath(loc) \notin DOMAIN outFiles
        /\ \A loc \in rendered :
              outFiles[OutPath(loc)] = RenderedText(fsTemplates[loc], heap[core_values])

\* a completed run over an old output directory, with a unit rendered to
\* the path of an old file, and a unit that failed
C4_Witness ==
    /\ pc = "done"
    /\ outBefore # NoFiles
    /\ \E loc \in rendered : OutPath(loc) \in DOMAIN outBefore
    /\ \E loc \in attempted : loc \notin rendered

\* lives under the directory --macros_dir names
UnderMacrosDir(loc) ==
    LET parts == TargetParts \o loc.dirs
    IN /\ Len(parts) >= Len(macros_dir)
       /\ SubSeq(parts, 1, Len(macros_dir)) = macros_dir

\* C5, as claimed: the units attempted are exactly the .j2 files under the
\* template root that do not live under the designated macros directory.
C5_DesignatedMacrosExcluded ==
    pc = "done" =>
        /\ attempted = {loc \in DOMAIN fsTemplates :
                           loc.ext = "j2" /\ ~UnderMacrosDir(loc)}
        /\ \A loc \in DOMAIN fsTemplates :
              UnderMacrosDir(loc) => OutPath(loc) \notin DOMAIN outFiles

\* the macro files of the run, and those whose module loads
MacroFiles == IF fsMacrosIsDir THEN MacroGlob ELSE {}
LoadedFiles == {f \in MacroFiles : ModuleLoads(fsTemplates[f])}
Exporters(sym) == {f \in LoadedFiles : sym \in fsTemplates[f].exp}
LastExporter(sym) ==
    CHOOSE f \in Exporters(sym) : \A g \in Exporters(sym) : Rank(g.stem) <= Rank(f.stem)
Symbols == UNION {fsTemplates[f].exp : f \in MacroFiles}
InjectionDone == pc \in {"wipe", "render", "done"} \/ Rendering

\* C6: inject_macros takes the macro files in ascending name order, all of
\* them whatever fails; afterwards every symbol a loaded file exports is
\* bound to the export of the last loaded file exporting it, a file that
\* failed has bound nothing, a missing directory binds nothing, and no
\* run ends in an error raised by macro loading.
C6_MacroOrderAndIsolation ==
    /\ InjectionDone =>
          /\ {macroLog[n] : n \in 1..Len(macroLog)} = MacroFiles
          /\ \A m, n \in 1..Len(macroLog) :
                m < n => Rank(macroLog[m].stem) < Rank(macroLog[n].stem)
          /\ \A sym \in Symbols :
                IF Exporters(sym) # {}
                THEN /\ sym \in DOMAIN heap[core_values]
                     /\ heap[core_values][sym] = MacroObj(Rank(LastExporter(sym).stem))
                ELSE sym \in DOMAIN heap[core_values]
                        => heap[core_values][sym].t # "f"
          /\ ~fsMacrosIsDir =>
                \A k \in DOMAIN heap[core_values] : heap[core_values][k].t # "f"
    /\ pc \in {"inject", "inject_loop"} => err = ""
    /\ pc = "crash" => err \in {"yaml_error", "not_a_mapping", "yaml_dump",
                                "makedirs", "open"}

\* three macro files: the first and the last load and export the same
\* symbol, the one between them fails
C6_Witness ==
    /\ pc = "wipe"
    /\ Len(macroLog) = 3
    /\ ModuleLoads(fsTemplates[macroLog[1]])
    /\ ~ModuleLoads(fsTemplates[macroLog[2]])
    /\ ModuleLoads(fsTemplates[macroLog[3]])
    /\ "mk" \in fsTemplates[macroLog[1]].exp
    /\ "mk" \in fsTemplates[macroLog[3]].exp
    /\ heap[core_values]["mk"] = MacroObj(Rank(macroLog[3].stem))

\* the value a cell of the heap stands for
CellValue(h, cell) == IF IsDict(cell) THEN MapVal(Deref(h, cell.s)) ELSE cell

\* C7, as claimed: after inject_macros every top-level key of the merged
\* configuration (the tree main dumped) still has its configuration value
\* in the rendering namespace.
C7_MacrosNeverReplaceConfig ==
    InjectionDone =>
        \A k \in DOMAIN yamlOut :
            /\ k \in DOMAIN heap[core_values]
            /\ CellValue(heap, heap[core_values][k]) = yamlOut[k]

\* a set-up fault: a required directory is missing, a layer has no file,
\* or a file cannot be read or parsed into a mapping
UnusableDoc(doc) == doc.k \in {"invalid", "seq"}
SetupFault ==
    \/ ~fsEnvIsDir
    \/ ~fsTargetIsDir
    \/ fsCoreYaml = <<>>
    \/ fsEnvYaml = <<>>
    \/ \E n \in 1..Len(fsCoreYaml) : UnusableDoc(fsCoreYaml[n])
    \/ \E n \in 1..Len(fsEnvYaml) : UnusableDoc(fsEnvYaml[n])

\* C8, as claimed: a run with a set-up fault ends in an error without
\* wiping the output directory or rendering anything, and a run that
\* reaches rendering has loaded and merged the configuration and injected
\* the macros.
C8_SetupFailsFast ==
    /\ SetupFault =>
          /\ ~wiped
          /\ outFiles = outBefore
          /\ attempted = {}
          /\ pc \in Terminal => pc \in {"exit1", "crash"}
    /\ (pc \in {"wipe", "render"} \/ Rendering) =>
          /\ Len(overlays) = Len(fsCoreYaml) + Len(fsEnvYaml) + 1
          /\ macroQueue = <<>>
          /\ Len(macroLog) = Cardinality(MacroFiles)
====
